---- MODULE Spec2Model ----
(***************************************************************************)
(* qxdl-gentle: the polite sequential downloader of src/main.go.           *)
(*                                                                         *)
(* The model follows main() statement by statement: the range loop, the    *)
(* skip-by-existence check, the first attempt of a file, the error wait,   *)
(* the in-place retry loop and the exit.  downloadFile is modelled by its  *)
(* result (dlResult) and its effect on the two paths it touches, the       *)
(* destination and its ".part" sibling.  Durations are whole ticks; the    *)
(* server and the local I/O are the environment and answer freely.         *)
(***************************************************************************)
EXTENDS Integers, FiniteSets, Sequences, TLC

(***************************************************************************)
(* Bounds of the model.                                                    *)
(***************************************************************************)
MaxEnd == 2            \* largest index of a range under an arbitrary environment
StreakLen == 8         \* largest index of a range under a failing environment
MaxInterval == 1       \* -interval is at most MaxInterval
MaxRetries == 2        \* -retries ranges over 0..MaxRetries
MaxMaxWait == 2        \* -max-wait ranges over 1..MaxMaxWait, and the default
MaxMaxErrors == 2      \* -max-errors ranges over 0..MaxMaxErrors
MaxRetryAfter == 2     \* a Retry-After hint ranges over 0..MaxRetryAfter
MaxBase == 8           \* sleepWithJitter alone: bases -1..MaxBase
MaxDen == 4            \* sleepWithJitter alone: fractions n/d, d in 1..MaxDen

(***************************************************************************)
(* Program constants.                                                      *)
(***************************************************************************)
BackoffExpCap == 6               \* min(consecErrors, 6)
DefaultMaxWait == 300            \* default of -max-wait
DefaultBackoff == 2              \* default of -backoff
StatusOK == 200
StatusNotFound == 404
StatusTooManyRequests == 429
StatusServiceUnavailable == 503
ErrorStatusFloor == 400

Indices == 1..StreakLen

VARIABLES
    \* flags, fixed for the run
    interval, jitterNum, jitterDen, retries, maxWait, backoff, maxErrors, startNum, endNum,
    \* the environment: how the server answers, and which files exist at start
    server, pre,
    \* main's locals and position
    pc, i, consecErrors, attempt, res, exitCode,
    \* the filesystem: destination and ".part" sibling of every index
    dest, tmp,
    \* history: the suspension of the last step, the attempts issued per index,
    \* the classification of every task, why the loop ended, and the streak
    \* at the start of the current task
    wait, attempts, task, stop, taskStreak,
    \* history: the indices in the order their tasks were taken, the number of
    \* waits between files, and whether a suspension with a positive base has
    \* been performed since the last fetch
    order, nBetween, paused

flags == <<interval, jitterNum, jitterDen, retries, maxWait, backoff, maxErrors, startNum, endNum>>
env == <<server, pre>>
vars == <<interval, jitterNum, jitterDen, retries, maxWait, backoff, maxErrors, startNum, endNum,
          server, pre, pc, i, consecErrors, attempt, res, exitCode, dest, tmp,
          wait, attempts, task, stop, taskStreak, order, nBetween, paused>>
hist == <<order, nBetween, paused>>

(***************************************************************************)
(* Pure helpers of the source.                                             *)
(***************************************************************************)
min(a, b) == IF a < b THEN a ELSE b

RECURSIVE Pow(_, _)
Pow(b, e) == IF e = 0 THEN 1 ELSE b * Pow(b, e - 1)

\* dlResult: the zero value, before any attempt
NoResult == [StatusCode |-> 0, RetryAfter |-> 0, Err |-> FALSE]

\* line 126: the classification of a first attempt
IsFailure(r) ==
    r.Err \/ (r.StatusCode >= ErrorStatusFloor /\ r.StatusCode # StatusNotFound)

\* line 158: the success test of a retry attempt
RetryOkLoose(r) == ~IsFailure(r)

RetryOk(r) == ~r.Err /\ r.StatusCode = StatusOK

\* line 131: the abort threshold
AbortReachedStrict(c, m) == c > m

AbortReached(c, m) == c >= m

\* line 107: i++
NextIndexSkipping(k) == k + 2

NextIndex(k) == k + 1

\* line 153: attempt++
NextAttemptStuck(a) == a

NextAttempt(a) == a + 1

\* lines 112-119: the streak after a skipped task
StreakAfterSkipReset(c) == 0

StreakAfterSkip(c) == c

\* lines 127 and 181: the streak after a first attempt
StreakAfterFirstTwice(c, failed) == IF failed THEN c + 2 ELSE 0

StreakAfterFirst(c, failed) == IF failed THEN c + 1 ELSE 0

\* lines 137-149: the wait after a failed first attempt
ErrorWaitUncapped(r, c, iv, bk, mw) ==
    IF r.StatusCode = StatusTooManyRequests /\ r.RetryAfter > 0 THEN r.RetryAfter
    ELSE IF r.StatusCode = StatusServiceUnavailable /\ r.RetryAfter > 0 THEN r.RetryAfter
    ELSE iv * Pow(bk, min(c, BackoffExpCap))

ErrorWaitNoExpCap(r, c, iv, bk, mw) ==
    LET w == IF r.StatusCode = StatusTooManyRequests /\ r.RetryAfter > 0 THEN r.RetryAfter
             ELSE IF r.StatusCode = StatusServiceUnavailable /\ r.RetryAfter > 0
                  THEN r.RetryAfter
             ELSE iv * Pow(bk, c)
    IN  IF w > mw THEN mw ELSE w

ErrorWaitOnly429(r, c, iv, bk, mw) ==
    LET w == IF r.StatusCode = StatusTooManyRequests /\ r.RetryAfter > 0 THEN r.RetryAfter
             ELSE iv * Pow(bk, min(c, BackoffExpCap))
    IN  IF w > mw THEN mw ELSE w

ErrorWait(r, c, iv, bk, mw) ==
    LET w == IF r.StatusCode = StatusTooManyRequests /\ r.RetryAfter > 0 THEN r.RetryAfter
             ELSE IF r.StatusCode = StatusServiceUnavailable /\ r.RetryAfter > 0
                  THEN r.RetryAfter
             ELSE iv * Pow(bk, min(c, BackoffExpCap))
    IN  IF w > mw THEN mw ELSE w

\* lines 167-170: the wait after a failed retry attempt
RetryWaitBackoff(r, iv) == IF r.RetryAfter > 0 THEN r.RetryAfter ELSE iv * DefaultBackoff

RetryWait(r, iv) == IF r.RetryAfter > 0 THEN r.RetryAfter ELSE iv

\* lines 195-210: the durations sleepWithJitter may sleep for base and
\* fraction jn/jd; rand.Int63n(2j+1) draws from 0..2j
sleepWithJitterWide(base, jn, jd) ==
    IF base <= 0 THEN {0}
    ELSE LET j == (base * jn) \div jd
         IN  {IF base + d - j < 0 THEN 0 ELSE base + d - j : d \in 0..(2 * j + 1)}

sleepWithJitter(base, jn, jd) ==
    IF base <= 0 THEN {0}
    ELSE LET j == (base * jn) \div jd
         IN  {IF base + d - j < 0 THEN 0 ELSE base + d - j : d \in 0..(2 * j)}

\* line 112: os.Stat on the destination
FileExistsPart(d, t) == t # "none"

FileExists(d, t) == d # "none"

(***************************************************************************)
(* The environment of one attempt: what the server answers (status 0 is a  *)
(* transport error, hint 0 is no usable Retry-After) and where the local   *)
(* I/O of a 200 answer fails, if it does.  A 200 answer is taken to carry  *)
(* no Retry-After.  The "failing" environment answers no 200 that can be   *)
(* written: every attempt fails and no file is touched.                    *)
(***************************************************************************)
StatusCodes == {StatusOK, StatusNotFound, StatusTooManyRequests, 500,
                StatusServiceUnavailable}
FailingStatusCodes == {StatusTooManyRequests, 500, StatusServiceUnavailable}
IoFaults == {"create", "copy", "close", "rename"}

Answers(sv) ==
    LET codes == IF sv = "failing" THEN FailingStatusCodes ELSE StatusCodes
        faults == IF sv = "failing" THEN {"create"} ELSE IoFaults
    IN  {[status |-> 0, hint |-> 0, io |-> "none"]}
        \cup {[status |-> s, hint |-> h, io |-> "none"] :
                  s \in codes \ {StatusOK}, h \in 0..MaxRetryAfter}
        \cup {[status |-> s, hint |-> 0, io |-> "none"] : s \in codes \cap {StatusOK}}
        \cup {[status |-> StatusOK, hint |-> 0, io |-> f] : f \in faults}

\* lines 212-262: downloadFile on answer o, with the destination holding d
\* and the temporary sibling holding t
downloadFileEagerCreate(o, d, t) ==
    IF o.status = 0
    THEN [res |-> [StatusCode |-> 0, RetryAfter |-> 0, Err |-> TRUE], dest |-> d, tmp |-> t]
    ELSE LET r == [StatusCode |-> o.status, RetryAfter |-> o.hint, Err |-> FALSE]
             e == [r EXCEPT !.Err = TRUE]
         IN  IF o.status # StatusOK THEN [res |-> r, dest |-> d, tmp |-> "partial"]
             ELSE IF o.io = "create" THEN [res |-> e, dest |-> d, tmp |-> t]
             ELSE IF o.io = "copy" THEN [res |-> e, dest |-> d, tmp |-> "partial"]
             ELSE IF o.io = "close" THEN [res |-> e, dest |-> d, tmp |-> "partial"]
             ELSE IF o.io = "rename" THEN [res |-> e, dest |-> d, tmp |-> "full"]
             ELSE [res |-> r, dest |-> "full", tmp |-> "none"]

downloadFileInPlace(o, d, t) ==
    IF o.status = 0
    THEN [res |-> [StatusCode |-> 0, RetryAfter |-> 0, Err |-> TRUE], dest |-> d, tmp |-> t]
    ELSE LET r == [StatusCode |-> o.status, RetryAfter |-> o.hint, Err |-> FALSE]
             e == [r EXCEPT !.Err = TRUE]
         IN  IF o.status # StatusOK THEN [res |-> r, dest |-> d, tmp |-> t]
             ELSE IF o.io = "create" THEN [res |-> e, dest |-> d, tmp |-> t]
             ELSE IF o.io = "copy" THEN [res |-> e, dest |-> "partial", tmp |-> t]
             ELSE IF o.io = "close" THEN [res |-> e, dest |-> "partial", tmp |-> t]
             ELSE IF o.io = "rename" THEN [res |-> e, dest |-> "full", tmp |-> t]
             ELSE [res |-> r, dest |-> "full", tmp |-> t]

downloadFile(o, d, t) ==
    IF o.status = 0
    THEN [res |-> [StatusCode |-> 0, RetryAfter |-> 0, Err |-> TRUE], dest |-> d, tmp |-> t]
    ELSE LET r == [StatusCode |-> o.status, RetryAfter |-> o.hint, Err |-> FALSE]
             e == [r EXCEPT !.Err = TRUE]
         IN  IF o.status # StatusOK THEN [res |-> r, dest |-> d, tmp |-> t]
             ELSE IF o.io = "create" THEN [res |-> e, dest |-> d, tmp |-> t]
             ELSE IF o.io = "copy" THEN [res |-> e, dest |-> d, tmp |-> "partial"]
             ELSE IF o.io = "close" THEN [res |-> e, dest |-> d, tmp |-> "partial"]
             ELSE IF o.io = "rename" THEN [res |-> e, dest |-> d, tmp |-> "full"]
             ELSE [res |-> r, dest |-> "full", tmp |-> "none"]

NoWait == [kind |-> "none", base |-> 0, slept |-> 0]

\* lines 196-198: a call with a base of 0 or less returns without sleeping
Suspends(w) == w.kind # "none" /\ w.base > 0

\* the attempts of one index are counted up to this many
AttemptCap == MaxRetries + 3
CountAttempt(n) == IF n < AttemptCap THEN n + 1 ELSE n

(***************************************************************************)
(* Initial states: the flags as parsed, nothing attempted yet.             *)
(***************************************************************************)
InitRun ==
    /\ i = 0
    /\ consecErrors = 0
    /\ attempt = 0
    /\ res = NoResult
    /\ exitCode = -1
    /\ dest = [k \in Indices |-> IF k \in pre THEN "full" ELSE "none"]
    /\ tmp = [k \in Indices |-> "none"]
    /\ wait = NoWait
    /\ attempts = [k \in Indices |-> 0]
    /\ task = [k \in Indices |-> "Pending"]
    /\ stop = "none"
    /\ taskStreak = 0
    /\ order = <<>>
    /\ nBetween = 0
    /\ paused = FALSE

\* an arbitrary server and disk, a short range, the default cap and multiplier
Init ==
    /\ interval \in {0, MaxInterval}
    /\ jitterNum \in {0, 1}
    /\ jitterDen = 2
    /\ retries \in {0, 1, MaxRetries}
    /\ maxWait = DefaultMaxWait
    /\ backoff = DefaultBackoff
    /\ maxErrors \in {0, 1, MaxMaxErrors}
    /\ startNum \in {1, 2}
    /\ endNum \in 1..MaxEnd
    /\ server = "any"
    /\ pre \in SUBSET (startNum..endNum)
    /\ InitRun
    /\ pc = "start"

\* sleepWithJitter alone: any fraction n/d up to (d+1)/d, nothing else runs
InitJitter ==
    /\ jitterDen \in 1..MaxDen
    /\ jitterNum \in 0..(jitterDen + 1)
    /\ interval = 0
    /\ retries = 0
    /\ maxWait = DefaultMaxWait
    /\ backoff = DefaultBackoff
    /\ maxErrors = 1
    /\ startNum = 1
    /\ endNum = 1
    /\ server = "any"
    /\ pre = {}
    /\ InitRun
    /\ pc = "sleep"

\* an environment in which every attempt fails and nothing is written, a long
\* range, and the flags of the waits ranging
InitStreak ==
    /\ interval \in 0..MaxInterval
    /\ jitterNum \in {0, 1}
    /\ jitterDen = 2
    /\ retries \in {0, MaxRetries}
    /\ maxWait \in (1..MaxMaxWait) \cup {DefaultMaxWait}
    /\ backoff \in 1..DefaultBackoff
    /\ maxErrors \in {1, 4, StreakLen, StreakLen + 1}
    /\ startNum = 1
    /\ endNum = StreakLen
    /\ server = "failing"
    /\ pre \in SUBSET {1}
    /\ InitRun
    /\ pc = "start"

\* an arbitrary server and disk, a short range, no jitter, and the cap and the
\* multiplier at their least and at a usual value
InitPolite ==
    /\ interval \in {0, MaxInterval}
    /\ jitterNum = 0
    /\ jitterDen = 2
    /\ retries \in 0..MaxRetries
    /\ maxWait \in {0, MaxMaxWait}
    /\ backoff \in {0, DefaultBackoff}
    /\ maxErrors \in {0, 1, MaxMaxErrors + 1}
    /\ startNum = 1
    /\ endNum \in 1..MaxEnd
    /\ server = "any"
    /\ pre \in SUBSET (startNum..endNum)
    /\ InitRun
    /\ pc = "start"

\* an arbitrary server and disk, a short range whose first file may be on disk,
\* every number of retries, the waits at fixed flags
InitFair ==
    /\ interval = MaxInterval
    /\ jitterNum = 0
    /\ jitterDen = 2
    /\ retries \in 0..MaxRetries
    /\ maxWait = DefaultMaxWait
    /\ backoff = DefaultBackoff
    /\ maxErrors \in {0, 1, MaxMaxErrors + 1}
    /\ startNum = 1
    /\ endNum \in 1..MaxEnd
    /\ server = "any"
    /\ pre \in SUBSET {startNum}
    /\ InitRun
    /\ pc = "start"

(***************************************************************************)
(* The steps of main.                                                      *)
(***************************************************************************)
\* a call of sleepWithJitter, as the suspension it performs
Sleeps(kind, base) ==
    {[kind |-> kind, base |-> base, slept |-> s] : s \in sleepWithJitter(base, jitterNum, jitterDen)}

\* lines 184-187: the wait between two files, none after the last index
BetweenFilesAlways(k, last, iv) == Sleeps("between", iv)

BetweenFiles(k, last, iv) ==
    IF k < last THEN Sleeps("between", iv) ELSE {NoWait}

\* lines 173-176: after the last retry the loop continues with no wait
AfterGiveUpWaiting(k, last, iv) == BetweenFiles(k, last, iv)

AfterGiveUp(k, last, iv) == {NoWait}

\* lines 82-87 and 105: the range check, then the loop is entered
Validate ==
    /\ pc = "start"
    /\ IF endNum < startNum
       THEN /\ pc' = "exited"
            /\ exitCode' = 1
            /\ stop' = "invalid"
            /\ UNCHANGED i
       ELSE /\ pc' = "loop"
            /\ i' = startNum
            /\ UNCHANGED <<exitCode, stop>>
    /\ UNCHANGED <<flags, env, consecErrors, attempt, res, dest, tmp, wait, attempts,
                   task, taskStreak, hist>>

\* line 107: the loop condition fails
LoopExit ==
    /\ pc = "loop"
    /\ i > endNum
    /\ pc' = "after"
    /\ stop' = "range"
    /\ wait' = NoWait
    /\ UNCHANGED <<flags, env, i, consecErrors, attempt, res, exitCode, dest, tmp,
                   attempts, task, taskStreak, hist>>

\* lines 112-119: the destination exists
Skip ==
    /\ pc = "loop"
    /\ i <= endNum
    /\ FileExists(dest[i], tmp[i])
    /\ wait' \in Sleeps("skip", interval)
    /\ task' = [task EXCEPT ![i] = "Skipped"]
    /\ i' = NextIndex(i)
    /\ taskStreak' = consecErrors
    /\ consecErrors' = StreakAfterSkip(consecErrors)
    /\ order' = Append(order, i)
    /\ paused' = (paused \/ Suspends(wait'))
    /\ UNCHANGED <<flags, env, pc, attempt, res, exitCode, dest, tmp, attempts, stop,
                   nBetween>>

\* lines 124-150 and 177-187: the first attempt of a file, its classification,
\* the abort, the error wait, or the success and the wait between files
FirstAttempt ==
    /\ pc = "loop"
    /\ i <= endNum
    /\ ~FileExists(dest[i], tmp[i])
    /\ \E o \in Answers(server) :
         LET d == downloadFile(o, dest[i], tmp[i])
             failed == IsFailure(d.res)
             c == StreakAfterFirst(consecErrors, failed)
         IN  /\ res' = d.res
             /\ dest' = [dest EXCEPT ![i] = d.dest]
             /\ tmp' = [tmp EXCEPT ![i] = d.tmp]
             /\ attempts' = [attempts EXCEPT ![i] = CountAttempt(@)]
             /\ consecErrors' = c
             /\ taskStreak' = consecErrors
             /\ order' = Append(order, i)
             /\ IF failed
                THEN IF AbortReached(c, maxErrors)
                     THEN /\ pc' = "after"
                          /\ stop' = "threshold"
                          /\ wait' = NoWait
                          /\ task' = [task EXCEPT ![i] = "Aborted"]
                          /\ UNCHANGED <<i, attempt>>
                     ELSE /\ wait' \in Sleeps("error",
                                      ErrorWait(d.res, c, interval, backoff, maxWait))
                          /\ pc' = "retry"
                          /\ attempt' = 1
                          /\ task' = [task EXCEPT ![i] = "Failed"]
                          /\ UNCHANGED <<i, stop>>
                ELSE /\ task' = [task EXCEPT ![i] = "Succeeded"]
                     /\ wait' \in BetweenFiles(i, endNum, interval)
                     /\ i' = NextIndex(i)
                     /\ UNCHANGED <<pc, attempt, stop>>
             /\ paused' = Suspends(wait')
             /\ nBetween' = IF wait'.kind = "between" THEN nBetween + 1 ELSE nBetween
    /\ UNCHANGED <<flags, env, exitCode>>

\* lines 153-172 and 184-187: one pass of the retry loop
Retry ==
    /\ pc = "retry"
    /\ attempt <= retries
    /\ \E o \in Answers(server) :
         LET d == downloadFile(o, dest[i], tmp[i])
         IN  /\ res' = d.res
             /\ dest' = [dest EXCEPT ![i] = d.dest]
             /\ tmp' = [tmp EXCEPT ![i] = d.tmp]
             /\ attempts' = [attempts EXCEPT ![i] = CountAttempt(@)]
             /\ IF RetryOk(d.res)
                THEN /\ consecErrors' = 0
                     /\ task' = [task EXCEPT ![i] = "Succeeded"]
                     /\ wait' \in BetweenFiles(i, endNum, interval)
                     /\ i' = NextIndex(i)
                     /\ pc' = "loop"
                     /\ UNCHANGED attempt
                ELSE /\ wait' \in Sleeps("retry", RetryWait(d.res, interval))
                     /\ attempt' = NextAttempt(attempt)
                     /\ UNCHANGED <<pc, i, consecErrors, task>>
             /\ paused' = Suspends(wait')
             /\ nBetween' = IF wait'.kind = "between" THEN nBetween + 1 ELSE nBetween
    /\ UNCHANGED <<flags, env, exitCode, stop, taskStreak, order>>

\* lines 153 and 173-176: the retries are used up, the file is given up
GiveUp ==
    /\ pc = "retry"
    /\ attempt > retries
    /\ task' = [task EXCEPT ![i] = "GivenUp"]
    /\ i' = NextIndex(i)
    /\ pc' = "loop"
    /\ wait' \in AfterGiveUp(i, endNum, interval)
    /\ UNCHANGED <<flags, env, consecErrors, attempt, res, exitCode, dest, tmp,
                   attempts, stop, taskStreak, hist>>

\* lines 190-193: "Done." and main returns
Finish ==
    /\ pc = "after"
    /\ pc' = "exited"
    /\ exitCode' = 0
    /\ wait' = NoWait
    /\ UNCHANGED <<flags, env, i, consecErrors, attempt, res, dest, tmp, attempts,
                   task, stop, taskStreak, hist>>

Next ==
    \/ Validate
    \/ LoopExit
    \/ Skip
    \/ FirstAttempt
    \/ Retry
    \/ GiveUp
    \/ Finish

\* lines 195-210: one call of sleepWithJitter on a base of its own
SleepTrial ==
    /\ pc = "sleep"
    /\ \E base \in -1..MaxBase : wait' \in Sleeps("trial", base)
    /\ UNCHANGED <<flags, env, pc, i, consecErrors, attempt, res, exitCode, dest, tmp,
                   attempts, task, stop, taskStreak, hist>>

NextJitter == SleepTrial

Spec == Init /\ [][Next]_vars

SpecJitter == InitJitter /\ [][NextJitter]_vars

SpecStreak == InitStreak /\ [][Next]_vars

SpecPolite == InitPolite /\ [][Next]_vars

\* one thread: every fetch and every sleep returns, so a step that can be
\* taken is taken
SpecFair == InitFair /\ [][Next]_vars /\ WF_vars(Next)

(***************************************************************************)
(* Properties.                                                             *)
(***************************************************************************)
\* a step that can issue a fetch is possible
FetchPossible == ENABLED FirstAttempt \/ ENABLED Retry

\* C1: with maxErrors >= 1, every state in which a fetch attempt can be issued
\* (a first attempt or a retry) has consecErrors < maxErrors; once the streak
\* has reached maxErrors the loop is left and no fetch is possible any more.
C1_NoFetchAtThreshold ==
    maxErrors >= 1 =>
        /\ FetchPossible => consecErrors < maxErrors
        /\ consecErrors >= maxErrors => (~FetchPossible /\ pc \in {"after", "exited"})

\* C1 witness: the run stopped at the threshold with indices still to come
C1_Witness ==
    /\ maxErrors >= 1
    /\ stop = "threshold"
    /\ consecErrors = maxErrors
    /\ i < endNum
    /\ attempts[i + 1] = 0

\* C2: the streak rises by exactly 1 on a failed first attempt and is never
\* raised by a retry: all through the retry loop of a file, and at the abort,
\* it is exactly one more than when the task started, and it is never more.
C2_OneIncrementPerFile ==
    /\ consecErrors <= taskStreak + 1
    /\ pc = "retry" => consecErrors = taskStreak + 1
    /\ stop = "threshold" => consecErrors = taskStreak + 1

\* C2 witness: two retries of one file have failed, the streak rose by one
C2_Witness ==
    /\ pc = "retry"
    /\ attempt = 3
    /\ attempts[i] = 3
    /\ consecErrors = taskStreak + 1

\* C3 (as claimed): right after any attempt, first or retry, whose outcome is
\* not classified a failure, consecErrors is 0.
C3_ResetAfterAnyNonFailure ==
    [][(attempts' # attempts /\ ~IsFailure(res')) => consecErrors' = 0]_vars

\* C4 (as claimed): after a failed first attempt that carries a Retry-After
\* hint, the base of the wait that follows is exactly the hint.
C4_HintVerbatim ==
    (wait.kind = "error" /\ res.RetryAfter > 0) => wait.base = res.RetryAfter

\* C4 (amended): after a first attempt answered 429 or 503 with a positive
\* Retry-After hint that does not trigger the abort, the base of the wait that
\* follows is min(hint, maxWait), whatever the streak.
C4_HintOn429Or503Capped ==
    (/\ wait.kind = "error"
     /\ res.StatusCode \in {StatusTooManyRequests, StatusServiceUnavailable}
     /\ res.RetryAfter > 0)
        => wait.base = min(res.RetryAfter, maxWait)

\* C4 witness: a 503 with a hint below the cap, late in a streak whose backoff
\* would have been longer
C4_Witness ==
    /\ wait.kind = "error"
    /\ res.StatusCode = StatusServiceUnavailable
    /\ res.RetryAfter > 0
    /\ res.RetryAfter < maxWait
    /\ consecErrors >= 3
    /\ interval * Pow(backoff, min(consecErrors, BackoffExpCap)) > res.RetryAfter
    /\ wait.base = res.RetryAfter

\* C5: after a failed first attempt without a hint that does not trigger the
\* abort, the base of the wait is min(interval * backoff^min(n, 6), maxWait)
\* with n the streak after the increment; with interval 6, multiplier 2 and
\* cap 60 the waits are 12, 24, 48; with no file on disk, in a run where every
\* attempt fails, the abort comes at file number maxErrors and no later file
\* is fetched.
C5_BackoffFormula ==
    /\ (wait.kind = "error" /\ res.RetryAfter = 0) =>
           wait.base = min(interval * Pow(backoff, min(consecErrors, 6)), maxWait)
    /\ \A n \in 1..3 :
           ErrorWait([StatusCode |-> StatusServiceUnavailable, RetryAfter |-> 0,
                      Err |-> FALSE], n, 6, 2, 60) = 6 * Pow(2, n)
    /\ (stop = "threshold" /\ pre = {} /\ server = "failing") =>
           /\ i = startNum + maxErrors - 1
           /\ \A k \in Indices : k > i => attempts[k] = 0

\* C5 witness: the seventh failure in a row, the exponent held at 6, below the cap
C5_Witness ==
    /\ wait.kind = "error"
    /\ res.RetryAfter = 0
    /\ consecErrors = 7
    /\ interval = 1
    /\ backoff = 2
    /\ wait.base = 64

\* C6 (as claimed): every wait derived from a Retry-After hint or from backoff,
\* after a first attempt or after a failed retry, has a base of at most maxWait.
C6_EveryAdaptiveWaitCapped ==
    (wait.kind = "error" \/ (wait.kind = "retry" /\ res.RetryAfter > 0))
        => wait.base <= maxWait

\* C7: for a base >= 0 and a fraction num/den in [0, 1], the duration slept
\* lies in [max(0, base*(1 - frac)), base*(1 + frac)], never negative.
C7_JitterRange ==
    (wait.kind # "none" /\ wait.base >= 0 /\ jitterNum <= jitterDen) =>
        /\ wait.slept >= 0
        /\ wait.slept * jitterDen >= wait.base * (jitterDen - jitterNum)
        /\ wait.slept * jitterDen <= wait.base * (jitterDen + jitterNum)

\* C7 witness: a proper fraction whose jitter is truncated, slept below the base
C7_Witness ==
    /\ wait.kind = "trial"
    /\ 0 < jitterNum
    /\ jitterNum < jitterDen
    /\ (wait.base * jitterNum) % jitterDen # 0
    /\ 0 < wait.slept
    /\ wait.slept < wait.base

\* C8: an index whose destination exists when its task is reached is Skipped and
\* never fetched; a run over a range whose files are all on disk fetches nothing.
C8_ExistingNeverFetched ==
    /\ \A k \in Indices : dest[k] # "none" /\ task[k] = "Pending" => attempts[k] = 0
    /\ \A k \in pre : attempts[k] = 0 /\ task[k] \in {"Pending", "Skipped"}
    /\ (pc = "loop" /\ i <= endNum /\ dest[i] # "none") => ~ENABLED FirstAttempt
    /\ (startNum..endNum) \subseteq pre => \A k \in Indices : attempts[k] = 0

\* C8 witness: a whole range of two files already on disk has been run over
C8_Witness ==
    /\ pc = "exited"
    /\ stop = "range"
    /\ startNum = 1
    /\ endNum = 2
    /\ pre = {1, 2}
    /\ task[1] = "Skipped"
    /\ task[2] = "Skipped"

\* C9: a destination never holds partial content: it is absent or complete,
\* and one that this run created comes from an attempt that ended with the
\* rename; partial content stays in the ".part" sibling.
C9_NoPartialDestination ==
    \A k \in Indices :
        /\ dest[k] \in {"none", "full"}
        /\ (dest[k] = "full" /\ k \notin pre) => (task[k] = "Succeeded" /\ tmp[k] = "none")
        /\ (k = i /\ res.Err /\ pc \in {"retry", "after"}) => dest[k] = "none"

\* C9 witness: the body copy of a 200 answer failed, leaving a partial ".part"
C9_Witness ==
    /\ pc = "retry"
    /\ res.StatusCode = StatusOK
    /\ res.Err
    /\ tmp[i] = "partial"
    /\ dest[i] = "none"

\* C10 (as claimed): a run stopped by the threshold ends with a non-zero exit
\* status, unlike a run that went through its range.
C10_AbortExitsNonZero ==
    (pc = "exited" /\ stop = "threshold" /\ maxErrors >= 1) => exitCode # 0

\* C11: tasks are taken in ascending order, one index after the other from
\* startNum, none repeated and none passed over: a run that goes through its
\* range takes every index once (end - start + 1 tasks), a run that aborts has
\* taken exactly the prefix startNum..i.
C11_AscendingOnce ==
    /\ \A n \in 1..Len(order) : order[n] = startNum + n - 1
    /\ \A k \in Indices : task[k] # "Pending" <=> \E n \in 1..Len(order) : order[n] = k
    /\ Len(order) <= endNum - startNum + 1
    /\ stop = "range" => Len(order) = endNum - startNum + 1
    /\ stop = "threshold" => (Len(order) >= 1 /\ order[Len(order)] = i)

\* C11 witness: a range of two indices gone through, the first given up
C11_Witness ==
    /\ pc = "exited"
    /\ stop = "range"
    /\ order = <<1, 2>>
    /\ task[1] = "GivenUp"
    /\ task[2] # "Pending"

\* C12: given that every fetch and every sleep returns, every run ends, by
\* going through its range or by the abort, whatever the server answers.
C12_Terminates == <>(pc = "exited")

\* C12 witness: a run has ended in which every file used up all its retries
C12_Witness ==
    /\ pc = "exited"
    /\ stop = "range"
    /\ endNum = 2
    /\ retries = MaxRetries
    /\ \A k \in 1..2 : task[k] = "GivenUp" /\ attempts[k] = retries + 1

\* the task of index i - 1 has just ended with the given classification: the
\* loop is at its head and nothing of index i has been done yet
JustEnded(c) == pc = "loop" /\ i > startNum /\ task[i - 1] = c

\* C13: after a task that ends Succeeded and is not the last index there is one
\* wait with base interval (slept exactly when the jitter is 0) before the next
\* task, and none after the last index; over a run, the waits between files
\* are as many as the Succeeded tasks before the last index, so N absent files
\* answered 200 at once give N files, N - 1 waits and no retry.
C13_OneWaitBetweenFiles ==
    /\ JustEnded("Succeeded") =>
           IF i - 1 < endNum
           THEN /\ wait.kind = "between"
                /\ wait.base = interval
                /\ jitterNum = 0 => wait.slept = interval
           ELSE wait = NoWait
    /\ nBetween = Cardinality({k \in startNum..endNum :
                                  task[k] = "Succeeded" /\ k < endNum})
    /\ \A k \in Indices :
           (k \notin pre /\ dest[k] = "full" /\ attempts[k] = 1) => task[k] = "Succeeded"
    /\ sleepWithJitter(6, 0, 1) = {6}

\* C13 witness: two absent files, both answered 200 at once, one wait between
C13_Witness ==
    /\ pc = "exited"
    /\ pre = {}
    /\ order = <<1, 2>>
    /\ \A k \in 1..2 : dest[k] = "full" /\ attempts[k] = 1
    /\ interval = MaxInterval
    /\ jitterNum = 0
    /\ nBetween = 1

\* C14: the retry loop runs only after a failed first attempt that did not
\* abort, a file gets at most 1 + retries attempts, and the loop ends at the
\* first 200 without error: the file is then published, the streak is 0 and
\* the next task is at hand; after a 429 with a hint within the cap and no
\* jitter the wait before the retry is the hint exactly (10 for a hint of 10).
C14_RetryLoop ==
    /\ \A k \in Indices : attempts[k] <= 1 + retries
    /\ pc = "retry" =>
           /\ task[i] = "Failed"
           /\ attempts[i] = attempt
           /\ attempt <= retries + 1
           /\ ~AbortReached(consecErrors, maxErrors)
    /\ \A k \in Indices : attempts[k] >= 2 => task[k] \in {"Failed", "Succeeded", "GivenUp"}
    /\ (JustEnded("Succeeded") /\ attempts[i - 1] >= 2) =>
           /\ res.StatusCode = StatusOK
           /\ ~res.Err
           /\ dest[i - 1] = "full"
           /\ consecErrors = 0
    /\ (/\ wait.kind = "error"
        /\ res.StatusCode = StatusTooManyRequests
        /\ res.RetryAfter > 0
        /\ res.RetryAfter <= maxWait
        /\ jitterNum = 0) => wait.slept = res.RetryAfter
    /\ ErrorWait([StatusCode |-> StatusTooManyRequests, RetryAfter |-> 10, Err |-> FALSE],
                 1, 6, 2, DefaultMaxWait) = 10
    /\ sleepWithJitter(10, 0, 1) = {10}

\* C14 witness: the first of two retries got the 200, the second was not made
C14_Witness ==
    /\ JustEnded("Succeeded")
    /\ i = 2
    /\ retries = 2
    /\ attempts[1] = 2
    /\ dest[1] = "full"
    /\ consecErrors = 0

\* C15: when the retries of a file are used up the run goes on: no abort, the
\* streak as it was after the increment of the first failure, no wait between
\* files, and the next index, if any, is the next task.
C15_GivenUp ==
    /\ JustEnded("GivenUp") =>
           /\ stop = "none"
           /\ consecErrors = taskStreak + 1
           /\ wait = NoWait
           /\ attempts[i - 1] = retries + 1
           /\ order[Len(order)] = i - 1
           /\ i <= endNum => (task[i] = "Pending" /\ (ENABLED Skip \/ ENABLED FirstAttempt))
           /\ i > endNum => ENABLED LoopExit
    /\ stop = "threshold" => task[i] = "Aborted"

\* C15 witness: the first of two files was given up after two failed retries
C15_Witness ==
    /\ JustEnded("GivenUp")
    /\ i = 2
    /\ endNum = 2
    /\ retries = 2
    /\ consecErrors = 1
    /\ maxErrors = 2

\* the base of the wait after a first failure without hint, as a function of
\* the streak n, under the flags of the run
NoHintWait(n) ==
    ErrorWait([StatusCode |-> 500, RetryAfter |-> 0, Err |-> FALSE],
              n, interval, backoff, maxWait)

\* C16: with a backoff multiplier above 1 and no hint, the base of the wait
\* after a first failure does not decrease as the streak n grows below 6, is
\* the same for every n >= 6, and is never above maxWait.
C16_BackoffMonotoneCapped ==
    backoff > 1 =>
        /\ (wait.kind = "error" /\ res.RetryAfter = 0) =>
               (wait.base = NoHintWait(consecErrors) /\ wait.base <= maxWait)
        /\ \A n \in 1..BackoffExpCap - 1 : NoHintWait(n) <= NoHintWait(n + 1)
        /\ \A n \in BackoffExpCap..(StreakLen + 1) : NoHintWait(n) = NoHintWait(BackoffExpCap)
        /\ \A n \in 1..(StreakLen + 1) : NoHintWait(n) <= maxWait

\* C16 witness: the last failure of a full streak, the wait held at a low cap
C16_Witness ==
    /\ wait.kind = "error"
    /\ res.RetryAfter = 0
    /\ backoff = DefaultBackoff
    /\ interval = MaxInterval
    /\ consecErrors = StreakLen
    /\ maxWait = MaxMaxWait
    /\ wait.base = MaxMaxWait

C18_Non200WritesNothing ==
    /\ [][(attempts' # attempts /\ res'.StatusCode # StatusOK) =>
              (dest' = dest /\ tmp' = tmp)]_vars
    /\ [](\A k \in Indices :
              (dest[k] # "none" /\ k \notin pre) =>
                  (dest[k] = "full" /\ task[k] = "Succeeded" /\ attempts[k] >= 1))
    /\ []((JustEnded("Succeeded") /\ res.StatusCode = StatusNotFound) =>
              /\ attempts[i - 1] = 1
              /\ consecErrors = 0
              /\ dest[i - 1] = "none"
              /\ tmp[i - 1] = "none")

\* C18 witness: the second file is answered 404 after a failure of the first:
\* one attempt, the streak back from 1 to 0, no file of any kind
C18_Witness ==
    /\ JustEnded("Succeeded")
    /\ i = 3
    /\ res.StatusCode = StatusNotFound
    /\ task[1] = "GivenUp"
    /\ taskStreak = 1
    /\ consecErrors = 0
    /\ attempts[2] = 1
    /\ dest[2] = "none"
    /\ tmp[2] = "none"

\* C19 (as claimed): with interval > 0, whenever a network attempt can be made
\* after an earlier one, a suspension with a positive base has been performed
\* since that earlier attempt.
C19_NeverBackToBack ==
    (interval > 0 /\ FetchPossible /\ \E k \in Indices : attempts[k] > 0) => paused

\* C20: the step that skips a file leaves the streak, the files and the
\* attempts as they were and performs one wait with the interval as base,
\* whether or not the index is the last one.
C20_SkipOnlyWaits ==
    [][(\E k \in Indices : task[k] # "Skipped" /\ task'[k] = "Skipped") =>
          /\ consecErrors' = consecErrors
          /\ dest' = dest
          /\ tmp' = tmp
          /\ attempts' = attempts
          /\ res' = res
          /\ nBetween' = nBetween
          /\ wait'.kind = "skip"
          /\ wait'.base = interval
          /\ jitterNum = 0 => wait'.slept = interval
          /\ i' = i + 1]_vars

\* C20 witness: the last index is skipped with a streak of 1 left by the file
\* before it, and the wait is made all the same
C20_Witness ==
    /\ JustEnded("Skipped")
    /\ i = 3
    /\ endNum = 2
    /\ task[1] = "GivenUp"
    /\ consecErrors = 1
    /\ wait.kind = "skip"
    /\ wait.base = MaxInterval
    /\ interval = MaxInterval
====
